---- MODULE Spec2Model ----
(***************************************************************************)
(* desktop-whisper / voice-input-tool: the session controller of app.py    *)
(* (VoiceInputApp), the recorder of recorder.py and the lazily loaded      *)
(* engine of asr.py, as one state machine.                                 *)
(*                                                                         *)
(* Threads: the Qt main thread runs the slots (one slot per event, to      *)
(* completion); the warm-up thread runs VoiceInputApp._load_model; one     *)
(* worker thread per dispatched transcription runs _run_transcription;     *)
(* the sounddevice callback thread appends audio chunks; the pynput        *)
(* callback threads emit hotkey_pressed.  Signals emitted off the main     *)
(* thread are queued to the main thread's event queue (FIFO).              *)
(*                                                                         *)
(* Collaborator calls that the source leaves unguarded and that can raise  *)
(* (stream creation/start/stop, temp-file creation, WAV write, model load, *)
(* inference, a vanished audio file) raise nondeterministically.  The      *)
(* presentation calls (ui.*, output.paste_text) are taken to return.       *)
(* An exception that escapes a slot ends the slot where it was raised;     *)
(* PyQt then either reports it and keeps the loop running (an excepthook   *)
(* is installed) or aborts the process: both outcomes are kept.            *)
(*                                                                         *)
(* Besides the application (Spec, FairSpec) the modules are driven on      *)
(* their own: the recorder's API (SpecRecorder), hotkey.py's registry, key *)
(* events and listener (SpecHotkey), its combination parser (SpecParse),   *)
(* the ASR engine under two threads (SpecEngine) and its device and dtype  *)
(* selection (SpecDevice).  Each specification leaves the variables of     *)
(* the others unchanged.                                                   *)
(***************************************************************************)
EXTENDS Integers, Sequences, FiniteSets, TLC

\* ---------------------------------------------------------------- bounds
MaxPaths ==
    2

MaxQueue ==
    2

MaxChunks ==
    1

MaxResults ==
    1

MaxFires ==
    2

MaxComboLen ==
    2

MaxStarters ==
    2

MaxListeners ==
    2

MaxLoads ==
    2

\* ---------------------------------------------------------------- values
Paths ==
    1..MaxPaths

RECURSIVE SeqsUpTo(_, _)
SeqsUpTo(S, n) ==
    IF n = 0 THEN {<<>>}
    ELSE LET shorter == SeqsUpTo(S, n - 1)
         IN  shorter \cup {Append(s, c) : s \in {t \in shorter : Len(t) = n - 1}, c \in S}

\* the texts a transcription may yield, as sequences of characters: empty,
\* whitespace only, plain, and with whitespace before and after
Texts ==
    { <<>>,
      <<"\n", " ">>,
      <<"a">>,
      <<" ", "a", "\n">> }

\* what the model's transcribe() may return: a list of results (each with a
\* .text) or a single result object
ModelResults ==
    [kind : {"list"}, items : SeqsUpTo(Texts, MaxResults)]
        \cup [kind : {"single"}, items : {<<t>> : t \in Texts}]

\* app.State
State ==
    {"idle", "recording", "transcribing"}

\* ---------------------------------------------------------------- state
VARIABLES
    phase,        \* main(): "init" before app.start(), "loop" in qt_app.exec(), "crashed"
    state,        \* VoiceInputApp._state
    toggleLabel,  \* text of the tray toggle action: "start" / "stop"
    ui,           \* the floating window: "hidden" / "recording" / "transcribing"
    queue,        \* queued signal emissions waiting for the main thread
    recorder,     \* recorder._state: [recording, stream, chunks]
    files,        \* temporary WAV files that exist (by path id)
    nextPath,     \* the next unique temp-file name
    engineModel,  \* asr._engine._model: "none" / "loaded"
    loads,        \* number of ASREngine._load_model calls started so far
    loader,       \* pc of the warm-up thread (VoiceInputApp._load_model)
    workers,      \* per dispatched path: pc and result of _run_transcription
    last,         \* history: the slot the main thread ran last, and its calls
    handled,      \* history: per path, the slots that handled its notifications
    pasteLog      \* history: the paste_text calls made so far

\* the recorder module driven directly, and the hotkey module (hotkey._state)
VARIABLES
    recLast,      \* history: the last direct call of the recorder's API and its result
    hkHotkeys,    \* hotkey._state._hotkeys: the registered combinations
    hkPressed,    \* hotkey._state._pressed_keys
    hkFires,      \* number of callback threads started by _on_press
    hkLast,       \* history: the last key event, the last registration and what they did
    hkDisarmed    \* history: combinations invoked with none of their keys released since

\* the hotkey listener's lifecycle (hotkey.start_listener / stop_listener)
VARIABLES
    hkListener,   \* hotkey._state._listener: 0 for None, else the Listener object
    hkStopped,    \* the Listener objects whose stop() has been called
    hkNextId,     \* the next Listener object to be created
    hkStarters    \* per thread that calls start_listener: where it is in the call

appVars ==
    <<phase, state, toggleLabel, ui, queue, recorder, files, nextPath,
      engineModel, loads, loader, workers, last, handled, pasteLog>>

recVars ==
    <<recLast>>

hkVars ==
    <<hkHotkeys, hkPressed, hkFires, hkLast, hkDisarmed>>

lsnVars ==
    <<hkListener, hkStopped, hkNextId, hkStarters>>

\* the ASR engine driven directly (asr.ASREngine and asr.transcribe)
VARIABLES
    engInstance,  \* ASREngine._instance: 0 for None, else the object
    engObjects,   \* number of ASREngine objects created so far
    engModel,     \* the instance's _model: NoModel, or the loaded model's parameters
    engRefs,      \* history: the objects that ASREngine() has returned
    engLoads,     \* number of _load_model calls started so far
    engFailed,    \* history: a _load_model call has raised
    engThreads,   \* per calling thread: where it is in model / transcribe
    engLast,      \* history: the last call that finished, and its result
    devLast       \* the arguments and results of the device and dtype selection

engVars ==
    <<engInstance, engObjects, engModel, engRefs, engLoads, engFailed, engThreads,
      engLast, devLast>>

vars ==
    <<appVars, recVars, hkVars, lsnVars, engVars>>

\* ---------------------------------------------------------------- str.strip
IsSpace(c) ==
    c \in {" ", "\n", "\t", "\r", "\f"}

RECURSIVE LStrip(_)
LStrip(s) ==
    IF s = <<>> THEN <<>>
    ELSE IF IsSpace(Head(s)) THEN LStrip(Tail(s))
    ELSE s

RECURSIVE RStrip(_)
RStrip(s) ==
    IF s = <<>> THEN <<>>
    ELSE IF IsSpace(s[Len(s)]) THEN RStrip(SubSeq(s, 1, Len(s) - 1))
    ELSE s

\* text.strip()
Strip(s) ==
    RStrip(LStrip(s))

\* ---------------------------------------------------------------- helpers
Call(fn, text, path) ==
    [fn |-> fn, text |-> text, path |-> path]

Event(sig, text, id) ==
    [sig |-> sig, text |-> text, id |-> id]

\* whether the slot runs its body under `with self._lock`
SlotHoldsLock(op) ==
    op = "_on_hotkey"

Slot(op, from, calls, exc, text, id) ==
    [op |-> op, from |-> from, calls |-> calls, exc |-> exc, text |-> text, id |-> id,
     lock |-> SlotHoldsLock(op)]

\* an exception escaping a slot: the loop goes on, or the process aborts
AfterSlot(exc) ==
    IF exc = "none" THEN {"loop"} ELSE {"loop", "crashed"}

\* VoiceInputApp._update_toggle_label
_update_toggle_label(s) ==
    IF s = "recording" THEN "stop" ELSE "start"

\* ---------------------------------------------------------------- recorder.py
\* _RecorderState.__init__
RecorderInit ==
    [recording |-> FALSE, stream |-> "none", chunks |-> 0]

\* mutant: no `if _state._recording: raise` at the top of start_recording
start_recording_no_guard(rec) ==
    LET r0 == [recording |-> TRUE, stream |-> "none", chunks |-> 0]
    IN  { [rec |-> r0, exc |-> "StreamError"],
          [rec |-> [r0 EXCEPT !.stream = "created"], exc |-> "StreamError"],
          [rec |-> [r0 EXCEPT !.stream = "active"], exc |-> "none"] }

\* recorder.start_recording: the outcomes [rec, exc] of one call
start_recording(rec) ==
    IF rec.recording
    THEN {[rec |-> rec, exc |-> "AlreadyRecording"]}
    ELSE LET r0 == [recording |-> TRUE, stream |-> "none", chunks |-> 0]
         IN  { [rec |-> r0, exc |-> "StreamError"],
               [rec |-> [r0 EXCEPT !.stream = "created"], exc |-> "StreamError"],
               [rec |-> [r0 EXCEPT !.stream = "active"], exc |-> "none"] }

\* stop_recording, `_state._stream.stop()` / `.close()`: the outcomes that raise
StopStreamRaises(rec, fs, np) ==
    IF rec.stream = "none" THEN {}
    ELSE { [rec |-> rec, files |-> fs, next |-> np, path |-> 0, frames |-> 0,
            exc |-> "StreamError"],
           [rec |-> [rec EXCEPT !.stream = "stopped"], files |-> fs, next |-> np,
            path |-> 0, frames |-> 0, exc |-> "StreamError"] }

\* stop_recording from `_state._recording = False` on, for a buffer of `frames`
\* blocks: the temp file cannot be created, the WAV write fails, or the path of
\* the written file is returned
WriteWav(r1, fs, np, frames) ==
    { [rec |-> r1, files |-> fs, next |-> np, path |-> 0, frames |-> 0,
       exc |-> "OSError"],
      [rec |-> r1, files |-> fs \cup {np}, next |-> np + 1, path |-> 0, frames |-> 0,
       exc |-> "OSError"],
      [rec |-> r1, files |-> fs \cup {np}, next |-> np + 1, path |-> np,
       frames |-> frames, exc |-> "none"] }

\* the recorder state after the stream was stopped and closed
Stopped(rec) ==
    [rec EXCEPT !.recording = FALSE,
                !.stream = IF rec.stream = "none" THEN "none" ELSE "closed"]

\* mutant: no `if not _state._audio_data` branch: np.concatenate([]) raises
stop_recording_concat_always(rec, fs, np) ==
    IF ~rec.recording
    THEN {[rec |-> rec, files |-> fs, next |-> np, path |-> 0, frames |-> 0,
           exc |-> "NotRecording"]}
    ELSE StopStreamRaises(rec, fs, np) \cup
         (IF rec.chunks = 0
          THEN {[rec |-> Stopped(rec), files |-> fs, next |-> np, path |-> 0,
                 frames |-> 0, exc |-> "ValueError"]}
          ELSE WriteWav(Stopped(rec), fs, np, rec.chunks))

\* recorder.stop_recording: the outcomes [rec, files, next, path, frames, exc] of
\* one call; an empty buffer gives an empty array, so a file of zero frames
stop_recording(rec, fs, np) ==
    IF ~rec.recording
    THEN {[rec |-> rec, files |-> fs, next |-> np, path |-> 0, frames |-> 0,
           exc |-> "NotRecording"]}
    ELSE StopStreamRaises(rec, fs, np) \cup
         WriteWav(Stopped(rec), fs, np, IF rec.chunks = 0 THEN 0 ELSE rec.chunks)

\* recorder._audio_callback, on the sounddevice thread
AudioCallback ==
    /\ phase = "loop"
    /\ recorder.stream = "active"
    /\ recorder.chunks < MaxChunks
    /\ recorder' = [recorder EXCEPT !.chunks = @ + 1]
    /\ UNCHANGED <<phase, state, toggleLabel, ui, queue, files, nextPath, engineModel,
                   loads, loader, workers, last, handled, pasteLog>>
    /\ UNCHANGED <<recVars, hkVars, lsnVars, engVars>>

\* ---------------------------------------------------------------- asr.py
\* mutant: results[-1].text
FirstText_last(results) ==
    IF results.kind = "list"
    THEN IF results.items # <<>> THEN results.items[Len(results.items)] ELSE <<>>
    ELSE results.items[1]

\* ASREngine.transcribe, the result handling after the model call
FirstText(results) ==
    IF results.kind = "list"
    THEN IF results.items # <<>> THEN results.items[1] ELSE <<>>
    ELSE results.items[1]

\* ---------------------------------------------------------------- app.py
\* main(): register the hotkey, start the listener thread, app.start()
Start ==
    /\ phase = "init"
    /\ phase' = "loop"
    /\ ui' = "transcribing"
    /\ loader' = "access"
    /\ UNCHANGED <<state, toggleLabel, queue, recorder, files, nextPath, engineModel,
                   loads, workers, last, handled, pasteLog>>
    /\ UNCHANGED <<recVars, hkVars, lsnVars, engVars>>

\* VoiceInputApp._load_model: `_ = asr._engine.model`, the None test
LoadModelAccess ==
    /\ phase = "loop"
    /\ loader = "access"
    /\ IF engineModel = "none"
       THEN loader' = "loading" /\ loads' = loads + 1
       ELSE loader' = "emit" /\ UNCHANGED loads
    /\ UNCHANGED <<phase, state, toggleLabel, ui, queue, recorder, files, nextPath,
                   engineModel, workers, last, handled, pasteLog>>
    /\ UNCHANGED <<recVars, hkVars, lsnVars, engVars>>

\* VoiceInputApp._load_model: ASREngine._load_model returns or raises (logged)
LoadModelFinish ==
    /\ phase = "loop"
    /\ loader = "loading"
    /\ loader' = "emit"
    /\ \/ engineModel' = "loaded"
       \/ UNCHANGED engineModel
    /\ UNCHANGED <<phase, state, toggleLabel, ui, queue, recorder, files, nextPath,
                   loads, workers, last, handled, pasteLog>>
    /\ UNCHANGED <<recVars, hkVars, lsnVars, engVars>>

\* VoiceInputApp._load_model: self.model_loaded.emit()
LoadModelEmit ==
    /\ phase = "loop"
    /\ loader = "emit"
    /\ loader' = "done"
    /\ queue' = Append(queue, Event("model_loaded", <<>>, 0))
    /\ UNCHANGED <<phase, state, toggleLabel, ui, recorder, files, nextPath,
                   engineModel, loads, workers, last, handled, pasteLog>>
    /\ UNCHANGED <<recVars, hkVars, lsnVars, engVars>>

\* VoiceInputApp._on_model_loaded
_on_model_loaded ==
    /\ ui' = "hidden"
    /\ last' = Slot("_on_model_loaded", state, <<Call("ui.hide_ui", <<>>, 0)>>,
                    "none", <<>>, 0)
    /\ UNCHANGED <<phase, state, toggleLabel, recorder, files, nextPath, engineModel,
                   loads, loader, workers, handled, pasteLog>>

\* VoiceInputApp._start_recording
_start_recording ==
    \E o \in start_recording(recorder) :
        /\ state' = "recording"
        /\ toggleLabel' = _update_toggle_label("recording")
        /\ recorder' = o.rec
        /\ ui' = IF o.exc = "none" THEN "recording" ELSE ui
        /\ last' = Slot("_on_hotkey", state,
                        <<Call("recorder.start_recording", <<>>, 0)>>
                            \o (IF o.exc = "none"
                                THEN <<Call("ui.show_recording_ui", <<>>, 0)>>
                                ELSE <<>>),
                        o.exc, <<>>, 0)
        /\ phase' \in AfterSlot(o.exc)
        /\ UNCHANGED <<files, nextPath, engineModel, loads, loader, workers, handled,
                       pasteLog>>

\* VoiceInputApp._stop_recording_and_transcribe
_stop_recording_and_transcribe ==
    \E o \in stop_recording(recorder, files, nextPath) :
        /\ state' = "transcribing"
        /\ toggleLabel' = _update_toggle_label("transcribing")
        /\ recorder' = o.rec
        /\ files' = o.files
        /\ nextPath' = o.next
        /\ ui' = IF o.exc = "none" THEN "transcribing" ELSE ui
        /\ workers' = IF o.exc = "none"
                      THEN [workers EXCEPT ![o.path].pc = "isfile"]
                      ELSE workers
        /\ last' = Slot("_on_hotkey", state,
                        <<Call("recorder.stop_recording", <<>>, 0)>>
                            \o (IF o.exc = "none"
                                THEN <<Call("ui.show_transcribing_ui", <<>>, 0),
                                       Call("Thread.start", <<>>, o.path)>>
                                ELSE <<>>),
                        o.exc, <<>>, 0)
        /\ phase' \in AfterSlot(o.exc)
        /\ UNCHANGED <<engineModel, loads, loader, handled, pasteLog>>

\* mutant: `if self._state != State.RECORDING` instead of `== State.IDLE`
_on_hotkey_start_unless_recording ==
    IF state # "recording" THEN _start_recording
    ELSE _stop_recording_and_transcribe

\* mutant: `else` instead of `elif self._state == State.RECORDING`
_on_hotkey_else ==
    IF state = "idle" THEN _start_recording
    ELSE _stop_recording_and_transcribe

\* VoiceInputApp._on_hotkey, under self._lock
_on_hotkey ==
    IF state = "idle" THEN _start_recording
    ELSE IF state = "recording" THEN _stop_recording_and_transcribe
    ELSE /\ last' = Slot("_on_hotkey", state, <<>>, "none", <<>>, 0)
         /\ UNCHANGED <<phase, state, toggleLabel, ui, recorder, files, nextPath,
                        engineModel, loads, loader, workers, handled, pasteLog>>

\* mutant: `if text:` instead of `if text.strip():`
_on_transcription_done_no_strip(ev) ==
    LET pastes == ev.text # <<>>
    IN  /\ ui' = "hidden"
        /\ pasteLog' = IF pastes
                       THEN Append(pasteLog, [id |-> ev.id, text |-> ev.text,
                                              state |-> state, ui |-> "hidden"])
                       ELSE pasteLog
        /\ state' = "idle"
        /\ toggleLabel' = _update_toggle_label("idle")
        /\ last' = Slot("_on_transcription_done", state,
                        <<Call("ui.hide_ui", <<>>, 0)>>
                            \o (IF pastes
                                THEN <<Call("output.paste_text", ev.text, 0)>>
                                ELSE <<>>),
                        "none", ev.text, ev.id)
        /\ handled' = [handled EXCEPT ![ev.id] = Append(@, last'.op)]
        /\ UNCHANGED <<phase, recorder, files, nextPath, engineModel, loads, loader,
                       workers>>

\* mutant: the text is pasted before the feedback is hidden
_on_transcription_done_paste_first(ev) ==
    LET pastes == Strip(ev.text) # <<>>
    IN  /\ pasteLog' = IF pastes
                       THEN Append(pasteLog, [id |-> ev.id, text |-> ev.text,
                                              state |-> state, ui |-> ui])
                       ELSE pasteLog
        /\ ui' = "hidden"
        /\ state' = "idle"
        /\ toggleLabel' = _update_toggle_label("idle")
        /\ last' = Slot("_on_transcription_done", state,
                        (IF pastes
                         THEN <<Call("output.paste_text", ev.text, 0)>>
                         ELSE <<>>)
                            \o <<Call("ui.hide_ui", <<>>, 0)>>,
                        "none", ev.text, ev.id)
        /\ handled' = [handled EXCEPT ![ev.id] = Append(@, last'.op)]
        /\ UNCHANGED <<phase, recorder, files, nextPath, engineModel, loads, loader,
                       workers>>

\* VoiceInputApp._on_transcription_done
_on_transcription_done(ev) ==
    LET pastes == Strip(ev.text) # <<>>
    IN  /\ ui' = "hidden"
        /\ pasteLog' = IF pastes
                       THEN Append(pasteLog, [id |-> ev.id, text |-> ev.text,
                                              state |-> state, ui |-> "hidden"])
                       ELSE pasteLog
        /\ state' = "idle"
        /\ toggleLabel' = _update_toggle_label("idle")
        /\ last' = Slot("_on_transcription_done", state,
                        <<Call("ui.hide_ui", <<>>, 0)>>
                            \o (IF pastes
                                THEN <<Call("output.paste_text", ev.text, 0)>>
                                ELSE <<>>),
                        "none", ev.text, ev.id)
        /\ handled' = [handled EXCEPT ![ev.id] = Append(@, last'.op)]
        /\ UNCHANGED <<phase, recorder, files, nextPath, engineModel, loads, loader,
                       workers>>

\* VoiceInputApp._on_transcription_failed
_on_transcription_failed(ev) ==
    /\ ui' = "hidden"
    /\ state' = "idle"
    /\ toggleLabel' = _update_toggle_label("idle")
    /\ last' = Slot("_on_transcription_failed", state, <<Call("ui.hide_ui", <<>>, 0)>>,
                    "none", <<>>, ev.id)
    /\ handled' = [handled EXCEPT ![ev.id] = Append(@, last'.op)]
    /\ UNCHANGED <<phase, recorder, files, nextPath, engineModel, loads, loader,
                   workers, pasteLog>>

\* mutant: the except branch reports success
_run_transcription_emit_always_done(p, raised, text) ==
    Event("transcription_done", text, p)

\* _run_transcription: the notification the worker emits for its path
_run_transcription_emit(p, raised, text) ==
    IF raised
    THEN Event("transcription_failed", <<>>, p)
    ELSE Event("transcription_done", text, p)

\* mutant: the notification of the try block is followed by one from finally
WorkerEmits_twice(p, exc, text) ==
    /\ queue' = Append(Append(queue, _run_transcription_emit(p, exc # "none", text)),
                       Event("transcription_failed", <<>>, p))
    /\ workers' = [workers EXCEPT ![p] = [pc |-> "remove",
                                          outcome |-> IF exc # "none" THEN "raised"
                                                      ELSE "returned",
                                          text |-> text,
                                          err |-> exc]]

\* the worker of path p leaves asr.transcribe (returning text or raising), emits
\* and goes on to its finally block
WorkerEmits(p, exc, text) ==
    /\ queue' = Append(queue, _run_transcription_emit(p, exc # "none", text))
    /\ workers' = [workers EXCEPT ![p] = [pc |-> "remove",
                                          outcome |-> IF exc # "none" THEN "raised"
                                                      ELSE "returned",
                                          text |-> text,
                                          err |-> exc]]

\* mutant: no os.path.isfile test before the model is used
transcribe_isfile_unchecked(p) ==
    /\ phase = "loop"
    /\ workers[p].pc = "isfile"
    /\ workers' = [workers EXCEPT ![p].pc = "model"]
    /\ UNCHANGED <<phase, state, toggleLabel, ui, queue, recorder, files, nextPath,
                   engineModel, loads, loader, last, handled, pasteLog>>
    /\ UNCHANGED <<recVars, hkVars, lsnVars, engVars>>

\* ASREngine.transcribe: os.path.isfile(audio_path)
transcribe_isfile(p) ==
    /\ phase = "loop"
    /\ workers[p].pc = "isfile"
    /\ IF p \in files
       THEN /\ workers' = [workers EXCEPT ![p].pc = "model"]
            /\ UNCHANGED queue
       ELSE WorkerEmits(p, "FileNotFoundError", <<>>)
    /\ UNCHANGED <<phase, state, toggleLabel, ui, recorder, files, nextPath, engineModel,
                   loads, loader, last, handled, pasteLog>>
    /\ UNCHANGED <<recVars, hkVars, lsnVars, engVars>>

\* ASREngine.model, reached from ASREngine.transcribe: the None test
transcribe_model(p) ==
    /\ phase = "loop"
    /\ workers[p].pc = "model"
    /\ IF engineModel = "none"
       THEN /\ workers' = [workers EXCEPT ![p].pc = "loading"]
            /\ loads' = loads + 1
       ELSE /\ workers' = [workers EXCEPT ![p].pc = "infer"]
            /\ UNCHANGED loads
    /\ UNCHANGED <<phase, state, toggleLabel, ui, queue, recorder, files, nextPath,
                   engineModel, loader, last, handled, pasteLog>>
    /\ UNCHANGED <<recVars, hkVars, lsnVars, engVars>>

\* ASREngine._load_model on the worker: returns, or raises inside transcribe's try
transcribe_load(p) ==
    /\ phase = "loop"
    /\ workers[p].pc = "loading"
    /\ \/ /\ engineModel' = "loaded"
          /\ workers' = [workers EXCEPT ![p].pc = "infer"]
          /\ UNCHANGED queue
       \/ /\ WorkerEmits(p, "RuntimeError", <<>>)
          /\ UNCHANGED engineModel
    /\ UNCHANGED <<phase, state, toggleLabel, ui, recorder, files, nextPath, loads,
                   loader, last, handled, pasteLog>>
    /\ UNCHANGED <<recVars, hkVars, lsnVars, engVars>>

\* ASREngine.transcribe: self.model.transcribe(audio=audio_path) returns or raises
transcribe_infer(p) ==
    /\ phase = "loop"
    /\ workers[p].pc = "infer"
    /\ \/ \E results \in ModelResults : WorkerEmits(p, "none", FirstText(results))
       \/ WorkerEmits(p, "RuntimeError", <<>>)
    /\ UNCHANGED <<phase, state, toggleLabel, ui, recorder, files, nextPath, engineModel,
                   loads, loader, last, handled, pasteLog>>
    /\ UNCHANGED <<recVars, hkVars, lsnVars, engVars>>

\* _run_transcription: finally: os.remove(audio_path), OSError ignored
_run_transcription_remove(p) ==
    /\ phase = "loop"
    /\ workers[p].pc = "remove"
    /\ files' = files \ {p}
    /\ workers' = [workers EXCEPT ![p].pc = "done"]
    /\ UNCHANGED <<phase, state, toggleLabel, ui, queue, recorder, nextPath, engineModel,
                   loads, loader, last, handled, pasteLog>>
    /\ UNCHANGED <<recVars, hkVars, lsnVars, engVars>>

\* the environment removes a temporary file (what os.path.isfile guards against)
TempCleaner(p) ==
    /\ phase = "loop"
    /\ p \in files
    /\ workers[p].pc = "isfile"
    /\ files' = files \ {p}
    /\ UNCHANGED <<phase, state, toggleLabel, ui, queue, recorder, nextPath, engineModel,
                   loads, loader, workers, last, handled, pasteLog>>
    /\ UNCHANGED <<recVars, hkVars, lsnVars, engVars>>

\* mutant: the callback thread calls the slot itself instead of emitting
_hotkey_callback_direct ==
    /\ phase = "loop"
    /\ nextPath <= MaxPaths
    /\ _on_hotkey
    /\ UNCHANGED queue
    /\ UNCHANGED <<recVars, hkVars, lsnVars, engVars>>

\* hotkey._on_press matched the combination: a callback thread runs
\* VoiceInputApp._hotkey_callback, which emits hotkey_pressed
_hotkey_callback ==
    /\ phase = "loop"
    /\ Len(queue) < MaxQueue
    /\ nextPath <= MaxPaths
    /\ queue' = Append(queue, Event("hotkey_pressed", <<>>, 0))
    /\ UNCHANGED <<phase, state, toggleLabel, ui, recorder, files, nextPath, engineModel,
                   loads, loader, workers, last, handled, pasteLog>>
    /\ UNCHANGED <<recVars, hkVars, lsnVars, engVars>>

\* the tray menu's toggle action, connected straight to _on_hotkey
TrayToggle ==
    /\ phase = "loop"
    /\ nextPath <= MaxPaths
    /\ _on_hotkey
    /\ UNCHANGED queue
    /\ UNCHANGED <<recVars, hkVars, lsnVars, engVars>>

\* the main event loop delivers the queued emission at the head of the queue
DeliverHotkey ==
    /\ phase = "loop"
    /\ queue # <<>>
    /\ Head(queue).sig = "hotkey_pressed"
    /\ queue' = Tail(queue)
    /\ _on_hotkey
    /\ UNCHANGED <<recVars, hkVars, lsnVars, engVars>>

DeliverModelLoaded ==
    /\ phase = "loop"
    /\ queue # <<>>
    /\ Head(queue).sig = "model_loaded"
    /\ queue' = Tail(queue)
    /\ _on_model_loaded
    /\ UNCHANGED <<recVars, hkVars, lsnVars, engVars>>

DeliverDone ==
    /\ phase = "loop"
    /\ queue # <<>>
    /\ Head(queue).sig = "transcription_done"
    /\ queue' = Tail(queue)
    /\ _on_transcription_done(Head(queue))
    /\ UNCHANGED <<recVars, hkVars, lsnVars, engVars>>

DeliverFailed ==
    /\ phase = "loop"
    /\ queue # <<>>
    /\ Head(queue).sig = "transcription_failed"
    /\ queue' = Tail(queue)
    /\ _on_transcription_failed(Head(queue))
    /\ UNCHANGED <<recVars, hkVars, lsnVars, engVars>>

\* ---------------------------------------------------------------- recorder, driven directly
RecCall(fn, o) ==
    [fn |-> fn, before |-> recorder, filesBefore |-> files, exc |-> o.exc,
     path |-> o.path, frames |-> o.frames]

\* a caller invokes recorder.start_recording()
RecorderStart ==
    /\ \E o \in start_recording(recorder) :
           /\ recorder' = o.rec
           /\ recLast' = RecCall("start_recording", [exc |-> o.exc, path |-> 0, frames |-> 0])
    /\ UNCHANGED <<phase, state, toggleLabel, ui, queue, files, nextPath, engineModel,
                   loads, loader, workers, last, handled, pasteLog>>
    /\ UNCHANGED <<hkVars, lsnVars, engVars>>

\* a caller invokes recorder.stop_recording()
RecorderStop ==
    /\ nextPath <= MaxPaths
    /\ \E o \in stop_recording(recorder, files, nextPath) :
           /\ recorder' = o.rec
           /\ files' = o.files
           /\ nextPath' = o.next
           /\ recLast' = RecCall("stop_recording", o)
    /\ UNCHANGED <<phase, state, toggleLabel, ui, queue, engineModel, loads, loader,
                   workers, last, handled, pasteLog>>
    /\ UNCHANGED <<hkVars, lsnVars, engVars>>

\* recorder._audio_callback while the recorder is driven directly
RecorderAudio ==
    /\ recorder.stream = "active"
    /\ recorder.chunks < MaxChunks
    /\ recorder' = [recorder EXCEPT !.chunks = @ + 1]
    /\ UNCHANGED <<phase, state, toggleLabel, ui, queue, files, nextPath, engineModel,
                   loads, loader, workers, last, handled, pasteLog>>
    /\ UNCHANGED <<recVars, hkVars, lsnVars, engVars>>

\* ---------------------------------------------------------------- hotkey.py
\* strings are sequences of one-character strings
UpperCase ==
    <<"A", "B", "C", "D", "E", "F", "G", "H", "I", "J", "K", "L", "M", "N", "O", "P", "Q", "R", "S", "T", "U", "V", "W", "X", "Y", "Z">>

LowerCase ==
    <<"a", "b", "c", "d", "e", "f", "g", "h", "i", "j", "k", "l", "m", "n", "o", "p", "q", "r", "s", "t", "u", "v", "w", "x", "y", "z">>

\* str.lower(), one character
ToLower(c) ==
    IF \E i \in 1..Len(UpperCase) : UpperCase[i] = c
    THEN LowerCase[CHOOSE i \in 1..Len(UpperCase) : UpperCase[i] = c]
    ELSE c

\* str.lower()
Lower(str) ==
    [i \in 1..Len(str) |-> ToLower(str[i])]

\* the aliases dict of _normalize_key
Aliases ==
    { <<<<"o", "p", "t", "i", "o", "n">>, <<"a", "l", "t">>>>,
      <<<<"o", "p", "t">>, <<"a", "l", "t">>>>,
      <<<<"c", "m", "d">>, <<"c", "m", "d">>>>,
      <<<<"c", "o", "m", "m", "a", "n", "d">>, <<"c", "m", "d">>>>,
      <<<<"c", "t", "r", "l">>, <<"c", "t", "r", "l">>>>,
      <<<<"c", "o", "n", "t", "r", "o", "l">>, <<"c", "t", "r", "l">>>>,
      <<<<"s", "h", "i", "f", "t">>, <<"s", "h", "i", "f", "t">>>> }

\* aliases.get(key, key)
AliasGet(key) ==
    IF \E a \in Aliases : a[1] = key
    THEN (CHOOSE a \in Aliases : a[1] = key)[2]
    ELSE key

\* key[1:-1] when the key starts with "<" and ends with ">"
Unbracket(key) ==
    IF key # <<>> /\ Head(key) = "<" /\ key[Len(key)] = ">"
    THEN SubSeq(key, 2, Len(key) - 1)
    ELSE key

\* mutant: no key.lower()
_normalize_key_case_sensitive(key) ==
    AliasGet(Unbracket(Strip(key)))

\* hotkey._normalize_key
_normalize_key(key) ==
    AliasGet(Unbracket(Strip(Lower(key))))

\* str.split("+"): the parts, in order
RECURSIVE SplitPlus(_, _)
SplitPlus(str, part) ==
    IF str = <<>> THEN <<part>>
    ELSE IF Head(str) = "+" THEN <<part>> \o SplitPlus(Tail(str), <<>>)
    ELSE SplitPlus(Tail(str), Append(part, Head(str)))

\* hotkey._parse_key_combination
_parse_key_combination(key_combination) ==
    LET parts == SplitPlus(key_combination, <<>>)
    IN  {_normalize_key(parts[i]) : i \in 1..Len(parts)}

\* key names as written in combination strings, each with the canonical token
\* it stands for
TokenTable ==
    << [raw |-> <<"<", "a", "l", "t", ">">>, canon |-> <<"a", "l", "t">>],
       [raw |-> <<"A", "L", "T">>, canon |-> <<"a", "l", "t">>],
       [raw |-> <<"<", "s", "p", "a", "c", "e", ">">>, canon |-> <<"s", "p", "a", "c", "e">>],
       [raw |-> <<"s", "p", "a", "c", "e">>, canon |-> <<"s", "p", "a", "c", "e">>],
       [raw |-> <<"C", "m", "d">>, canon |-> <<"c", "m", "d">>],
       [raw |-> <<"c", "o", "m", "m", "a", "n", "d">>, canon |-> <<"c", "m", "d">>],
       [raw |-> <<"<", "C", "o", "m", "m", "a", "n", "d", ">">>, canon |-> <<"c", "m", "d">>],
       [raw |-> <<"V">>, canon |-> <<"v">>],
       [raw |-> <<"O", "p", "t", "i", "o", "n">>, canon |-> <<"a", "l", "t">>],
       [raw |-> <<"<", "o", "p", "t", ">">>, canon |-> <<"a", "l", "t">>],
       [raw |-> <<"<", "C", "T", "R", "L", ">">>, canon |-> <<"c", "t", "r", "l">>],
       [raw |-> <<"C", "o", "n", "t", "r", "o", "l">>, canon |-> <<"c", "t", "r", "l">>] >>

\* "+".join of the raw names of a sequence of table entries
RECURSIVE JoinPlus(_)
JoinPlus(ix) ==
    IF Len(ix) = 1 THEN TokenTable[ix[1]].raw
    ELSE TokenTable[ix[1]].raw \o <<"+">> \o JoinPlus(Tail(ix))

\* the combination strings tried: 1..MaxComboLen names of the table
Combos ==
    SeqsUpTo(1..Len(TokenTable), MaxComboLen) \ {<<>>}

\* the combinations an application registers: app.HOTKEY's default
\* "<alt>+<space>", and "Cmd+V"
RegisteredStrings ==
    {JoinPlus(<<1, 3>>), JoinPlus(<<5, 8>>)}

\* the pynput keys that arrive as events: Key members (by name) and KeyCode
\* values (char, or no char and only a virtual key code)
PynputKeys ==
    { [kind |-> "Key", name |-> "alt_l", char |-> ""],
      [kind |-> "Key", name |-> "alt_gr", char |-> ""],
      [kind |-> "Key", name |-> "cmd", char |-> ""],
      [kind |-> "Key", name |-> "space", char |-> ""],
      [kind |-> "Key", name |-> "f1", char |-> ""],
      [kind |-> "KeyCode", name |-> "", char |-> "v"],
      [kind |-> "KeyCode", name |-> "", char |-> "V"],
      [kind |-> "KeyCode", name |-> "", char |-> ""] }

\* the key_map dict of _key_to_string
KeyMap ==
    { <<"alt", <<"a", "l", "t">>>>, <<"alt_l", <<"a", "l", "t">>>>, <<"alt_r", <<"a", "l", "t">>>>, <<"alt_gr", <<"a", "l", "t">>>>,
      <<"cmd", <<"c", "m", "d">>>>, <<"cmd_l", <<"c", "m", "d">>>>, <<"cmd_r", <<"c", "m", "d">>>>,
      <<"ctrl", <<"c", "t", "r", "l">>>>, <<"ctrl_l", <<"c", "t", "r", "l">>>>, <<"ctrl_r", <<"c", "t", "r", "l">>>>,
      <<"shift", <<"s", "h", "i", "f", "t">>>>, <<"shift_l", <<"s", "h", "i", "f", "t">>>>, <<"shift_r", <<"s", "h", "i", "f", "t">>>>,
      <<"space", <<"s", "p", "a", "c", "e">>>>, <<"enter", <<"e", "n", "t", "e", "r">>>>, <<"tab", <<"t", "a", "b">>>>, <<"esc", <<"e", "s", "c">>>>,
      <<"backspace", <<"b", "a", "c", "k", "s", "p", "a", "c", "e">>>>, <<"delete", <<"d", "e", "l", "e", "t", "e">>>> }

\* the value _key_to_string returns for None
NoKey ==
    <<>>

\* hotkey._key_to_string
_key_to_string(key) ==
    IF key.kind = "Key"
    THEN IF \E m \in KeyMap : m[1] = key.name
         THEN (CHOOSE m \in KeyMap : m[1] = key.name)[2]
         ELSE NoKey
    ELSE IF key.char # "" THEN <<ToLower(key.char)>>
    ELSE NoKey

HkEvent(ev, fired, fresh) ==
    [ev |-> ev, fired |-> fired, fresh |-> fresh, input |-> <<>>, keys |-> {}]

\* hotkey.register_hotkey (the callback is the same for every combination)
register_hotkey(key_combination) ==
    /\ hkHotkeys' = hkHotkeys \cup {_parse_key_combination(key_combination)}
    /\ hkLast' = HkEvent("register", FALSE, TRUE)
    /\ UNCHANGED <<hkPressed, hkFires, hkDisarmed>>
    /\ UNCHANGED <<appVars, recVars, lsnVars, engVars>>

\* hotkey._on_press: a press event, also one repeated for a key that is held
_on_press(key) ==
    LET key_str == _key_to_string(key)
        current_keys == hkPressed \cup {key_str}
        match == current_keys \in hkHotkeys
    IN  /\ hkFires < MaxFires
        /\ IF key_str = NoKey
           THEN /\ hkLast' = HkEvent("press", FALSE, TRUE)
                /\ UNCHANGED <<hkPressed, hkFires, hkDisarmed>>
           ELSE /\ hkPressed' = current_keys
                /\ hkFires' = IF match THEN hkFires + 1 ELSE hkFires
                /\ hkDisarmed' = IF match THEN hkDisarmed \cup {current_keys}
                                 ELSE hkDisarmed
                /\ hkLast' = HkEvent("press", match, current_keys \notin hkDisarmed)
        /\ UNCHANGED hkHotkeys
        /\ UNCHANGED <<appVars, recVars, lsnVars, engVars>>

\* hotkey._on_release
_on_release(key) ==
    LET key_str == _key_to_string(key)
    IN  /\ IF key_str = NoKey
           THEN UNCHANGED <<hkPressed, hkDisarmed>>
           ELSE /\ hkPressed' = hkPressed \ {key_str}
                /\ hkDisarmed' = {c \in hkDisarmed : key_str \notin c}
        /\ hkLast' = HkEvent("release", FALSE, TRUE)
        /\ UNCHANGED <<hkHotkeys, hkFires>>
        /\ UNCHANGED <<appVars, recVars, lsnVars, engVars>>

\* a thread that may call start_listener, before the call
StarterIdle ==
    [pc |-> "idle", saw |-> 0, created |-> 0, target |-> 0]

\* hotkey.start_listener, the `with _state._lock` block: raise if a listener is
\* registered, else create one, register it and start it
start_listener_locked(t) ==
    /\ hkStarters[t].pc = "idle"
    /\ IF hkListener # 0
       THEN /\ hkStarters' = [hkStarters EXCEPT ![t] =
                                 [StarterIdle EXCEPT !.pc = "AlreadyRunning",
                                                     !.saw = hkListener]]
            /\ UNCHANGED <<hkListener, hkNextId>>
       ELSE /\ hkNextId <= MaxListeners
            /\ hkListener' = hkNextId
            /\ hkNextId' = hkNextId + 1
            /\ hkStarters' = [hkStarters EXCEPT ![t] =
                                 [StarterIdle EXCEPT !.pc = "unlocked",
                                                     !.created = hkNextId]]
    /\ UNCHANGED <<hkStopped, hkVars>>
    /\ UNCHANGED <<appVars, recVars, engVars>>

\* hotkey.start_listener, after the lock is released: `_state._listener.join()`
\* reads the module's reference again; None has no join
start_listener_join(t) ==
    /\ hkStarters[t].pc = "unlocked"
    /\ hkStarters' = [hkStarters EXCEPT ![t].pc = IF hkListener = 0 THEN "AttributeError"
                                                  ELSE "joined",
                                        ![t].target = hkListener]
    /\ UNCHANGED <<hkListener, hkStopped, hkNextId, hkVars>>
    /\ UNCHANGED <<appVars, recVars, engVars>>

\* Listener.join() returns once the listener it was called on has stopped
start_listener_return(t) ==
    /\ hkStarters[t].pc = "joined"
    /\ hkStarters[t].target \in hkStopped
    /\ hkStarters' = [hkStarters EXCEPT ![t].pc = "returned"]
    /\ UNCHANGED <<hkListener, hkStopped, hkNextId, hkVars>>
    /\ UNCHANGED <<appVars, recVars, engVars>>

\* hotkey.stop_listener, with _HotkeyState.reset
stop_listener ==
    /\ hkStopped' = IF hkListener # 0 THEN hkStopped \cup {hkListener} ELSE hkStopped
    /\ hkListener' = 0
    /\ hkPressed' = {}
    /\ hkLast' = HkEvent("stop_listener", FALSE, TRUE)
    /\ UNCHANGED <<hkNextId, hkStarters, hkHotkeys, hkFires, hkDisarmed>>
    /\ UNCHANGED <<appVars, recVars, engVars>>

\* _parse_key_combination applied to the combination string held in hkLast
ParseCombination ==
    /\ hkLast.ev = "combination"
    /\ hkLast' = [hkLast EXCEPT !.ev = "parsed",
                                !.keys = _parse_key_combination(JoinPlus(hkLast.input))]
    /\ UNCHANGED <<hkHotkeys, hkPressed, hkFires, hkDisarmed>>
    /\ UNCHANGED <<appVars, recVars, lsnVars, engVars>>

\* ---------------------------------------------------------------- asr.py, driven directly
\* the device names, as strings of characters
MPS ==
    <<"m", "p", "s">>

CUDA0 ==
    <<"c", "u", "d", "a", ":", "0">>

CPU ==
    <<"c", "p", "u">>

CUDAPrefix ==
    <<"c", "u", "d", "a">>

\* str.startswith
StartsWith(str, prefix) ==
    /\ Len(str) >= Len(prefix)
    /\ SubSeq(str, 1, Len(prefix)) = prefix

\* mutant: CUDA is tried before MPS
_select_device_cuda_first(mps, cuda) ==
    IF cuda THEN CUDA0
    ELSE IF mps THEN MPS
    ELSE CPU

\* asr._select_device, given torch.backends.mps.is_available() and
\* torch.cuda.is_available()
_select_device(mps, cuda) ==
    IF mps THEN MPS
    ELSE IF cuda THEN CUDA0
    ELSE CPU

\* asr._select_dtype
_select_dtype(device) ==
    IF device = MPS THEN "float16"
    ELSE IF StartsWith(device, CUDAPrefix) THEN "bfloat16"
    ELSE "float32"

\* _model = None
NoModel ==
    [loaded |-> FALSE]

\* ASREngine._load_model: the model that from_pretrained returns
LoadedModel ==
    [loaded |-> TRUE]

\* the threads that use the engine: the warm-up thread and a transcription worker
EngineThreads ==
    {"warmup", "worker"}

\* the audio paths passed to transcribe
EnginePaths ==
    {1, 2}

\* what model.transcribe returns: a list of no, one or two results, or one
\* result object
EngineResults ==
    { [kind |-> "list", items |-> <<>>],
      [kind |-> "list", items |-> << <<"a">> >>],
      [kind |-> "list", items |-> << <<"a">>, <<" ", "a", "\n">> >>],
      [kind |-> "list", items |-> << <<" ", "a", "\n">>, <<"a">> >>],
      [kind |-> "single", items |-> << <<"a">> >>] }

\* mutant: every construction clears _model
ASREngine_new_always_reset(instance, model, objects) ==
    IF instance = 0
    THEN [instance |-> objects + 1, model |-> NoModel, objects |-> objects + 1]
    ELSE [instance |-> instance, model |-> NoModel, objects |-> objects]

\* ASREngine.__new__: the class's _instance, its _model and the number of objects
\* after one construction; the object returned is the new _instance
ASREngine_new(instance, model, objects) ==
    IF instance = 0
    THEN [instance |-> objects + 1, model |-> NoModel, objects |-> objects + 1]
    ELSE [instance |-> instance, model |-> model, objects |-> objects]

\* mutant: the model property loads on every access
ModelIsNone_always(model) ==
    TRUE

\* ASREngine.model: `self._model is None`
ModelIsNone(model) ==
    model = NoModel

\* mutant: the model's exception is re-raised as it is
transcribe_except_reraise(e) ==
    [exc |-> e, cause |-> "none"]

\* ASREngine.transcribe: `except Exception as e: raise RuntimeError(...) from e`
transcribe_except(e) ==
    [exc |-> "RuntimeError", cause |-> e]

\* the exceptions (subclasses of Exception) that loading or running the model raises
ModelExceptions ==
    {"Exception", "FileNotFoundError"}

\* the text of a call that returned none
NoText ==
    <<"None">>

\* a thread that is not inside a call
EngIdle ==
    [pc |-> "idle", op |-> "none", level |-> "none", path |-> 0,
     sawLoaded |-> FALSE, sawFailed |-> FALSE]

\* the record of a call that finished
EngResult(th, invoked, outcome, exc, cause, modelExc, results, text) ==
    [op |-> th.op, level |-> th.level, path |-> th.path, exists |-> TRUE,
     sawLoaded |-> th.sawLoaded, sawFailed |-> th.sawFailed, invoked |-> invoked,
     outcome |-> outcome, exc |-> exc, cause |-> cause, modelExc |-> modelExc,
     results |-> results, text |-> text, ref |-> 0, modelBefore |-> NoModel,
     modelAfter |-> NoModel]

EngNoResult ==
    EngResult(EngIdle, <<>>, "none", "none", "none", "none", <<>>, NoText)

\* a call ends: its record replaces engLast and the thread is free again
EngFinish(t, result) ==
    /\ engLast' = result
    /\ engThreads' = [engThreads EXCEPT ![t] = EngIdle]

\* the device strings tried as the argument of _select_dtype
DeviceNames ==
    { MPS, CUDA0, CPU, CUDAPrefix,
      <<"c", "u", "d", "a", ":", "1">>,
      <<"x", "p", "u">>,
      <<"m", "e", "t", "a">> }

\* availability of the accelerators and a device string, before any selection
DevInput(mps, cuda, arg) ==
    [step |-> "input", mps |-> mps, cuda |-> cuda, arg |-> arg, device |-> <<>>,
     dtype |-> "none"]

\* _load_model: device = _select_device()
SelectDevice ==
    /\ devLast.step = "input"
    /\ devLast' = [devLast EXCEPT !.step = "device",
                                  !.device = _select_device(devLast.mps, devLast.cuda)]
    /\ UNCHANGED <<appVars, recVars, hkVars, lsnVars>>
    /\ UNCHANGED <<engInstance, engObjects, engModel, engRefs, engLoads, engFailed,
                   engThreads, engLast>>

\* _load_model: dtype = _select_dtype(device)
SelectDtype ==
    /\ devLast.step = "device"
    /\ devLast' = [devLast EXCEPT !.step = "loaded",
                                  !.dtype = _select_dtype(devLast.device)]
    /\ UNCHANGED <<appVars, recVars, hkVars, lsnVars>>
    /\ UNCHANGED <<engInstance, engObjects, engModel, engRefs, engLoads, engFailed,
                   engThreads, engLast>>

\* _select_dtype called with a device string of the caller's
SelectDtypeOf ==
    /\ devLast.step = "input"
    /\ devLast' = [devLast EXCEPT !.step = "dtype",
                                  !.dtype = _select_dtype(devLast.arg)]
    /\ UNCHANGED <<appVars, recVars, hkVars, lsnVars>>
    /\ UNCHANGED <<engInstance, engObjects, engModel, engRefs, engLoads, engFailed,
                   engThreads, engLast>>

\* ASREngine(): one construction, anywhere in the program
EngConstruct ==
    LET new == ASREngine_new(engInstance, engModel, engObjects)
    IN  /\ engInstance' = new.instance
        /\ engModel' = new.model
        /\ engObjects' = new.objects
        /\ engRefs' = engRefs \cup {new.instance}
        /\ engLast' = [EngNoResult EXCEPT !.op = "new", !.outcome = "returned",
                                          !.ref = new.instance,
                                          !.modelBefore = engModel,
                                          !.modelAfter = new.model]
        /\ UNCHANGED <<engLoads, engFailed, engThreads>>
        /\ UNCHANGED <<appVars, recVars, hkVars, lsnVars, devLast>>

\* a thread reads the engine's model property (as the warm-up does), or calls
\* ASREngine.transcribe ("engine") or asr.transcribe ("module", which passes its
\* argument to _engine.transcribe); transcribe tests os.path.isfile first
EngCall(t, op, level, path, exists) ==
    LET th == [EngIdle EXCEPT !.pc = "model", !.op = op, !.level = level, !.path = path,
                              !.sawLoaded = engModel.loaded,
                              !.sawFailed = engFailed]
    IN  /\ engThreads[t].pc = "idle"
        /\ IF op = "transcribe" /\ ~exists
           THEN EngFinish(t, [EngResult(th, <<>>, "raised", "FileNotFoundError", "none",
                                        "none", <<>>, NoText) EXCEPT !.exists = FALSE])
           ELSE /\ engThreads' = [engThreads EXCEPT ![t] = th]
                /\ UNCHANGED engLast
        /\ UNCHANGED <<engInstance, engObjects, engModel, engRefs, engLoads, engFailed>>
        /\ UNCHANGED <<appVars, recVars, hkVars, lsnVars, devLast>>

\* ASREngine.model: `if self._model is None`
EngModelCheck(t) ==
    LET th == engThreads[t]
    IN  /\ th.pc = "model"
        /\ IF ModelIsNone(engModel)
           THEN /\ engThreads' = [engThreads EXCEPT ![t].pc = "load"]
                /\ UNCHANGED engLast
           ELSE IF th.op = "access"
           THEN EngFinish(t, EngResult(th, <<>>, "returned", "none", "none", "none",
                                       <<>>, NoText))
           ELSE /\ engThreads' = [engThreads EXCEPT ![t].pc = "infer"]
                /\ UNCHANGED engLast
        /\ UNCHANGED <<engInstance, engObjects, engModel, engRefs, engLoads, engFailed>>
        /\ UNCHANGED <<appVars, recVars, hkVars, lsnVars, devLast>>

\* ASREngine.model: self._load_model() is entered
EngLoadStart(t) ==
    /\ engThreads[t].pc = "load"
    /\ engLoads < MaxLoads
    /\ engLoads' = engLoads + 1
    /\ engThreads' = [engThreads EXCEPT ![t].pc = "loading"]
    /\ UNCHANGED <<engInstance, engObjects, engModel, engRefs, engFailed, engLast>>
    /\ UNCHANGED <<appVars, recVars, hkVars, lsnVars, devLast>>

\* ASREngine._load_model: from_pretrained returns and _model is assigned, or it
\* raises (inside transcribe's try when the caller is transcribe)
EngLoadFinish(t) ==
    LET th == engThreads[t]
    IN  /\ th.pc = "loading"
        /\ \/ /\ engModel' = LoadedModel
              /\ IF th.op = "access"
                 THEN EngFinish(t, EngResult(th, <<>>, "returned", "none", "none", "none",
                                             <<>>, NoText))
                 ELSE /\ engThreads' = [engThreads EXCEPT ![t].pc = "infer"]
                      /\ UNCHANGED engLast
              /\ UNCHANGED engFailed
           \/ /\ engFailed' = TRUE
              /\ UNCHANGED engModel
              /\ \E e \in ModelExceptions :
                    IF th.op = "access"
                    THEN EngFinish(t, EngResult(th, <<>>, "raised", e, "none", e, <<>>,
                                                NoText))
                    ELSE EngFinish(t, EngResult(th, <<>>, "raised", transcribe_except(e).exc,
                                                transcribe_except(e).cause, e, <<>>,
                                                NoText))
        /\ UNCHANGED <<engInstance, engObjects, engRefs, engLoads>>
        /\ UNCHANGED <<appVars, recVars, hkVars, lsnVars, devLast>>

\* ASREngine.transcribe: self.model.transcribe(audio=audio_path) returns results,
\* whose text is returned, or raises
EngInfer(t) ==
    LET th == engThreads[t]
    IN  /\ th.pc = "infer"
        /\ \/ \E results \in EngineResults :
                 EngFinish(t, EngResult(th, <<th.path>>, "returned", "none", "none",
                                        "none", results, FirstText(results)))
           \/ \E e \in ModelExceptions :
                 EngFinish(t, EngResult(th, <<th.path>>, "raised", transcribe_except(e).exc,
                                        transcribe_except(e).cause, e, <<>>, NoText))
        /\ UNCHANGED <<engInstance, engObjects, engModel, engRefs, engLoads, engFailed>>
        /\ UNCHANGED <<appVars, recVars, hkVars, lsnVars, devLast>>

\* ---------------------------------------------------------------- specifications
\* VoiceInputApp.__init__, and the modules as imported
InitApp ==
    /\ phase = "init"
    /\ state = "idle"
    /\ toggleLabel = "start"
    /\ ui = "hidden"
    /\ queue = <<>>
    /\ recorder = RecorderInit
    /\ files = {}
    /\ nextPath = 1
    /\ engineModel = "none"
    /\ loads = 0
    /\ loader = "unstarted"
    /\ workers = [p \in Paths |-> [pc |-> "none", outcome |-> "none", text |-> <<>>,
                                  err |-> "none"]]
    /\ last = Slot("none", "idle", <<>>, "none", <<>>, 0)
    /\ handled = [p \in Paths |-> <<>>]
    /\ pasteLog = <<>>

InitRecorder ==
    recLast = [fn |-> "none", before |-> RecorderInit, filesBefore |-> {},
               exc |-> "none", path |-> 0, frames |-> 0]

\* _HotkeyState.__init__
InitHotkey ==
    /\ hkHotkeys = {}
    /\ hkPressed = {}
    /\ hkFires = 0
    /\ hkDisarmed = {}
    /\ hkListener = 0
    /\ hkStopped = {}
    /\ hkNextId = 1
    /\ hkStarters = [t \in 1..MaxStarters |-> StarterIdle]

\* the asr module as imported: `_engine = ASREngine()` on the class as defined
InitEngine ==
    LET new == ASREngine_new(0, NoModel, 0)
    IN  /\ engInstance = new.instance
        /\ engModel = new.model
        /\ engObjects = new.objects
        /\ engRefs = {new.instance}
        /\ engLoads = 0
        /\ engFailed = FALSE
        /\ engThreads = [t \in EngineThreads |-> EngIdle]
        /\ engLast = EngNoResult

Init ==
    /\ InitApp
    /\ InitRecorder
    /\ InitHotkey
    /\ InitEngine
    /\ hkLast = HkEvent("none", FALSE, TRUE)
    /\ devLast = DevInput(FALSE, FALSE, CPU)

\* every combination string tried as the argument of _parse_key_combination
InitParse ==
    /\ InitApp
    /\ InitRecorder
    /\ InitHotkey
    /\ InitEngine
    /\ hkLast \in {[HkEvent("combination", FALSE, TRUE) EXCEPT !.input = c] : c \in Combos}
    /\ devLast = DevInput(FALSE, FALSE, CPU)

\* every availability of the accelerators and every device string tried
InitDevice ==
    /\ InitApp
    /\ InitRecorder
    /\ InitHotkey
    /\ InitEngine
    /\ hkLast = HkEvent("none", FALSE, TRUE)
    /\ devLast \in {DevInput(mps, cuda, arg) :
                       mps \in BOOLEAN, cuda \in BOOLEAN, arg \in DeviceNames}

Next ==
    \/ Start
    \/ AudioCallback
    \/ LoadModelAccess
    \/ LoadModelFinish
    \/ LoadModelEmit
    \/ _hotkey_callback
    \/ TrayToggle
    \/ DeliverHotkey
    \/ DeliverModelLoaded
    \/ DeliverDone
    \/ DeliverFailed
    \/ \E p \in Paths : transcribe_isfile(p)
    \/ \E p \in Paths : transcribe_model(p)
    \/ \E p \in Paths : transcribe_load(p)
    \/ \E p \in Paths : transcribe_infer(p)
    \/ \E p \in Paths : _run_transcription_remove(p)
    \/ \E p \in Paths : TempCleaner(p)

Spec ==
    Init /\ [][Next]_vars

\* the recorder module alone, called in any order
NextRecorder ==
    \/ RecorderStart
    \/ RecorderStop
    \/ RecorderAudio

SpecRecorder ==
    Init /\ [][NextRecorder]_vars

\* the hotkey module alone: registrations and the listener's key events
NextHotkey ==
    \/ \E str \in RegisteredStrings : register_hotkey(str)
    \/ \E key \in PynputKeys : _on_press(key)
    \/ \E key \in PynputKeys : _on_release(key)
    \/ \E t \in 1..MaxStarters : start_listener_locked(t)
    \/ \E t \in 1..MaxStarters : start_listener_join(t)
    \/ \E t \in 1..MaxStarters : start_listener_return(t)
    \/ stop_listener

SpecHotkey ==
    Init /\ [][NextHotkey]_vars

\* the ASR engine alone: constructions, model accesses and transcribe calls
\* from concurrent threads
NextEngine ==
    \/ EngConstruct
    \/ \E t \in EngineThreads, path \in EnginePaths, exists \in BOOLEAN :
          \/ EngCall(t, "access", "engine", 0, TRUE)
          \/ EngCall(t, "transcribe", "engine", path, exists)
          \/ EngCall(t, "transcribe", "module", path, exists)
    \/ \E t \in EngineThreads : EngModelCheck(t)
    \/ \E t \in EngineThreads : EngLoadStart(t)
    \/ \E t \in EngineThreads : EngLoadFinish(t)
    \/ \E t \in EngineThreads : EngInfer(t)

SpecEngine ==
    Init /\ [][NextEngine]_vars

\* _select_device and _select_dtype as functions of their arguments
NextDevice ==
    \/ SelectDevice
    \/ SelectDtype
    \/ SelectDtypeOf

SpecDevice ==
    InitDevice /\ [][NextDevice]_vars

\* _parse_key_combination as a function of its argument
SpecParse ==
    InitParse /\ [][ParseCombination]_vars

\* the threads and the event loop are scheduled fairly; the user and the
\* environment (hotkey presses, tray clicks, the temp cleaner) are not
MainLoop ==
    Start \/ DeliverHotkey \/ DeliverModelLoaded \/ DeliverDone \/ DeliverFailed

LoaderThread ==
    LoadModelAccess \/ LoadModelFinish \/ LoadModelEmit

WorkerThread(p) ==
    \/ transcribe_isfile(p)
    \/ transcribe_model(p)
    \/ transcribe_load(p)
    \/ transcribe_infer(p)
    \/ _run_transcription_remove(p)

FairSpec ==
    /\ Spec
    /\ WF_vars(MainLoop)
    /\ WF_vars(LoaderThread)
    /\ \A p \in Paths : WF_vars(WorkerThread(p))

\* ---------------------------------------------------------------- properties
\* a step in which the main thread runs _on_hotkey (queued signal or tray click)
HotkeyHandled ==
    DeliverHotkey \/ TrayToggle

PasteCount(p) ==
    Cardinality({i \in 1..Len(pasteLog) : pasteLog[i].id = p})

Pending(sig, p) ==
    \E i \in 1..Len(queue) : queue[i].sig = sig /\ queue[i].id = p

\* the model_loaded notification has been emitted and handled
WarmupCompleted ==
    /\ loader = "done"
    /\ \A i \in 1..Len(queue) : queue[i].sig # "model_loaded"

\* C1: every hotkey activation handled by _on_hotkey while the state is
\* Transcribing leaves the state Transcribing, neither starts nor stops the
\* recorder (no recorder call, recorder state and temp files untouched) and
\* dispatches no transcription worker.
C1_IgnoredWhileTranscribing ==
    [][(state = "transcribing" /\ HotkeyHandled)
          => /\ state' = "transcribing"
             /\ recorder' = recorder
             /\ files' = files
             /\ workers' = workers
             /\ ui' = ui
             /\ last'.calls = <<>>]_vars

C1_Witness ==
    /\ last.op = "_on_hotkey"
    /\ last.from = "transcribing"
    /\ state = "transcribing"
    /\ \E p \in Paths : workers[p].pc \in {"isfile", "model", "loading", "infer"}

\* C2: after _on_hotkey ran from Recording the state is Transcribing, the
\* recorder was stopped exactly once and exactly one transcription thread was
\* started, with the path that stop returned.
C2_StopDispatchesOnePath ==
    (last.op = "_on_hotkey" /\ last.from = "recording")
        => /\ state = "transcribing"
           /\ \E p \in Paths :
                  last.calls = << Call("recorder.stop_recording", <<>>, 0),
                                  Call("ui.show_transcribing_ui", <<>>, 0),
                                  Call("Thread.start", <<>>, p) >>

\* C3: after _on_hotkey ran from Idle the state is Recording, the recorder was
\* asked to start exactly once, recording feedback is shown and no
\* transcription was dispatched.
C3_IdleActivationRecords ==
    (last.op = "_on_hotkey" /\ last.from = "idle")
        => /\ state = "recording"
           /\ ui = "recording"
           /\ last.calls = << Call("recorder.start_recording", <<>>, 0),
                              Call("ui.show_recording_ui", <<>>, 0) >>

\* C4: once the main thread has handled the done/failed notification of an
\* attempt (and so set the state back to Idle for it), the attempt's temporary
\* audio file does not exist.
C4_NoFileAfterIdle ==
    \A p \in Paths : handled[p] # <<>> => p \notin files

\* C5: while warm-up has not completed the state is not Idle and no recording
\* has been started.
C5_NotIdleDuringWarmup ==
    (phase = "loop" /\ ~WarmupCompleted) => (state # "idle" /\ ~recorder.recording)

\* C6: whenever the state is Transcribing it eventually is Idle again with
\* the feedback hidden (under fair scheduling of the threads and the loop).
C6_TranscribingLeadsToIdle ==
    (state = "transcribing") ~> (state = "idle" /\ ui = "hidden")

\* C7: when the engine raised for a dispatched path, the worker notifies
\* transcription_failed and never transcription_done; handling it sets the
\* state Idle and hides the feedback without calling paste; paste is never
\* called for that attempt; and once the worker has finished the temporary
\* file is gone.
C7_EngineRaises ==
    /\ \A p \in Paths :
           workers[p].outcome = "raised"
               => /\ PasteCount(p) = 0
                  /\ ~Pending("transcription_done", p)
                  /\ \/ Pending("transcription_failed", p) /\ handled[p] = <<>>
                     \/ handled[p] = <<"_on_transcription_failed">>
                  /\ workers[p].pc = "done" => p \notin files
    /\ last.op = "_on_transcription_failed"
           => /\ state = "idle"
              /\ ui = "hidden"
              /\ last.calls = <<Call("ui.hide_ui", <<>>, 0)>>
              /\ workers[last.id].outcome = "raised"

C7_Witness ==
    /\ last.op = "_on_transcription_failed"
    /\ workers[last.id].outcome = "raised"
    /\ workers[last.id].pc = "done"
    /\ state = "idle"

\* C8: a transcription result that is empty or whitespace-only never triggers
\* a paste, and handling it still sets the state Idle with feedback hidden.
C8_BlankResultNoPaste ==
    /\ \A i \in 1..Len(pasteLog) : Strip(pasteLog[i].text) # <<>>
    /\ \A p \in Paths :
           (workers[p].outcome = "returned" /\ Strip(workers[p].text) = <<>>)
               => PasteCount(p) = 0
    /\ (last.op = "_on_transcription_done" /\ Strip(last.text) = <<>>)
           => /\ state = "idle"
              /\ ui = "hidden"
              /\ last.calls = <<Call("ui.hide_ui", <<>>, 0)>>

C8_Witness ==
    /\ last.op = "_on_transcription_done"
    /\ last.text = <<"\n", " ">>
    /\ state = "idle"

\* C9: a successful transcription whose text is non-empty after trimming is
\* pasted exactly once, with that text, after the feedback was hidden, and
\* the state is then Idle; paste is only ever called in state Transcribing.
C9_PasteOnceAfterHide ==
    /\ (last.op = "_on_transcription_done" /\ Strip(last.text) # <<>>)
           => /\ state = "idle"
              /\ last.text = workers[last.id].text
              /\ last.calls = << Call("ui.hide_ui", <<>>, 0),
                                 Call("output.paste_text", last.text, 0) >>
    /\ \A p \in Paths :
           (handled[p] # <<>> /\ workers[p].outcome = "returned"
                /\ Strip(workers[p].text) # <<>>)
               => /\ PasteCount(p) = 1
                  /\ \E i \in 1..Len(pasteLog) :
                         pasteLog[i].id = p /\ pasteLog[i].text = workers[p].text
    /\ \A p \in Paths : PasteCount(p) <= 1
    /\ \A i \in 1..Len(pasteLog) :
           pasteLog[i].state = "transcribing" /\ pasteLog[i].ui = "hidden"

C9_Witness ==
    /\ last.op = "_on_transcription_done"
    /\ last.text = <<" ", "a", "\n">>
    /\ Len(pasteLog) = 1
    /\ state = "idle"

\* C10: at most one temporary audio file exists, at most one transcription
\* worker is alive, and the recorder holds at most one capture.
C10_OneInFlight ==
    /\ Cardinality(files) <= 1
    /\ Cardinality({p \in Paths : workers[p].pc \notin {"none", "done"}}) <= 1

PendingCount(p) ==
    Cardinality({i \in 1..Len(queue) :
                     /\ queue[i].id = p
                     /\ queue[i].sig \in {"transcription_done", "transcription_failed"}})

\* C11: the worker of a dispatched transcription emits exactly one
\* notification, transcription_done or transcription_failed and never both,
\* and the main thread handles at most one notification for it.
C11_OneNotification ==
    \A p \in Paths :
        /\ Len(handled[p]) <= 1
        /\ workers[p].pc \in {"remove", "done"} => PendingCount(p) + Len(handled[p]) = 1
        /\ workers[p].pc \notin {"remove", "done"} => PendingCount(p) + Len(handled[p]) = 0
        /\ workers[p].outcome = "returned"
               => /\ ~Pending("transcription_failed", p)
                  /\ handled[p] \in {<<>>, <<"_on_transcription_done">>}
        /\ workers[p].outcome = "raised"
               => /\ ~Pending("transcription_done", p)
                  /\ handled[p] \in {<<>>, <<"_on_transcription_failed">>}

C11_Witness ==
    /\ workers[1].pc = "done"
    /\ handled[1] = <<"_on_transcription_done">>
    /\ workers[2].pc = "done"
    /\ handled[2] = <<"_on_transcription_failed">>

\* C12: every slot that changed the session state did so while holding
\* the session mutex.
C12_TransitionsUnderLock ==
    (last.op # "none" /\ state # last.from) => last.lock

\* a step of a thread other than the main thread
OffMainStep ==
    \/ _hotkey_callback
    \/ AudioCallback
    \/ LoaderThread
    \/ \E p \in Paths : WorkerThread(p)

\* C13: the threads other than the main thread (hotkey callback threads, the
\* audio callback, the warm-up thread, the transcription workers) never write
\* the session state, never change the feedback window or the tray label and
\* never paste: they only emit notifications. A step that changes any of these
\* is not a step of such a thread.
C13_OnlyMainTouchesUi ==
    [][~(UNCHANGED <<state, toggleLabel, ui, pasteLog>>) => ~OffMainStep]_vars

C13_Witness ==
    /\ \E p \in Paths : workers[p].pc = "remove" /\ Pending("transcription_done", p)
    /\ \E i \in 1..Len(queue) : queue[i].sig = "hotkey_pressed"
    /\ state = "transcribing"
    /\ ui = "transcribing"

\* C14: the controller never gets 'already recording' or 'not recording'
\* from the recorder: the recorder's recording flag is off whenever the state
\* is Idle (where an activation calls start) and on whenever the state is
\* Recording (where an activation calls stop).
C14_NoUsageErrors ==
    /\ last.exc \notin {"AlreadyRecording", "NotRecording"}
    /\ state = "idle" => ~recorder.recording
    /\ state = "recording" => recorder.recording

C14_Witness ==
    /\ last.op = "_on_hotkey"
    /\ last.from = "recording"
    /\ last.exc = "none"
    /\ nextPath = MaxPaths + 1
    /\ \E i \in 1..Len(queue) : queue[i].sig = "hotkey_pressed"

\* C15: at most one model_loaded notification is delivered, and once it has
\* been handled the feedback is hidden and the session state is Idle.
C15_WarmupEndsIdle ==
    /\ Cardinality({i \in 1..Len(queue) : queue[i].sig = "model_loaded"})
           <= (IF loader = "done" THEN 1 ELSE 0)
    /\ last.op = "_on_model_loaded" => (ui = "hidden" /\ state = "idle")

\* C20: transcribe(path) on a path that does not exist raises the 'file not
\* found' condition at once: the worker goes straight to its finally block
\* with a transcription_failed notification, no model load is started and the
\* engine's model is left as it was.
C20_MissingFileBeforeModel ==
    [][\A p \in Paths :
           (transcribe_isfile(p) /\ p \notin files)
               => /\ workers'[p].err = "FileNotFoundError"
                  /\ workers'[p].pc = "remove"
                  /\ loads' = loads
                  /\ engineModel' = engineModel
                  /\ queue' = Append(queue, Event("transcription_failed", <<>>, p))]_vars

C20_Witness ==
    \E p \in Paths :
        /\ workers[p].err = "FileNotFoundError"
        /\ workers[p].pc = "done"
        /\ engineModel = "loaded"
        /\ loads = 1

\* C18: start_recording called while the recording flag is on raises
\* 'already recording' and leaves the recorder (flag, stream, buffered
\* samples) and the files unchanged; stop_recording called while the flag is
\* off raises 'not recording', creates no file and leaves the recorder
\* unchanged.
C18_RecorderUsageErrors ==
    [][/\ (RecorderStart /\ recorder.recording)
              => /\ recLast'.exc = "AlreadyRecording"
                 /\ recorder' = recorder
                 /\ files' = files
       /\ (RecorderStop /\ ~recorder.recording)
              => /\ recLast'.exc = "NotRecording"
                 /\ recorder' = recorder
                 /\ files' = files
                 /\ nextPath' = nextPath]_vars

C18_Witness ==
    /\ recLast.fn = "start_recording"
    /\ recLast.exc = "AlreadyRecording"
    /\ recorder.recording
    /\ recorder.stream = "active"
    /\ recorder.chunks = MaxChunks

\* C19: stop_recording on a recording whose buffer holds no samples does not
\* fail for want of samples (it raises only if the stream or the file system
\* does), and when it returns, it returns the path of a new file that holds
\* zero frames and the recorder is no longer recording.
C19_EmptyRecordingCompletes ==
    (recLast.fn = "stop_recording" /\ recLast.before.recording
         /\ recLast.before.chunks = 0)
        => /\ recLast.exc \in {"none", "StreamError", "OSError"}
           /\ recLast.exc = "none"
                  => /\ recLast.path \notin recLast.filesBefore
                     /\ recLast.path \in files
                     /\ recLast.frames = 0
                     /\ ~recorder.recording

C19_Witness ==
    /\ recLast.fn = "stop_recording"
    /\ recLast.before.stream = "active"
    /\ recLast.before.chunks = 0
    /\ recLast.exc = "none"
    /\ recLast.path \in files

\* C16: the callback is invoked only by a press event after which the pressed
\* keys are exactly a registered combination, and only if a key of that
\* combination has been released since the combination's previous invocation
C16_OncePerActivation ==
    (hkLast.ev = "press" /\ hkLast.fired) =>
        /\ hkPressed \in hkHotkeys
        /\ hkLast.fresh

\* C17: for every combination string joined from names of the table, the
\* parsed set is the set of the canonical tokens of those names
C17_ParseCanonical ==
    hkLast.ev = "parsed" =>
        hkLast.keys = {TokenTable[hkLast.input[i]].canon : i \in 1..Len(hkLast.input)}

\* "Cmd+V" has been parsed, to {cmd, v}
C17_Witness ==
    /\ hkLast.ev = "parsed"
    /\ JoinPlus(hkLast.input) = <<"C", "m", "d", "+", "V">>
    /\ hkLast.keys = {<<"c", "m", "d">>, <<"v">>}


\* C27: once the main thread has finished handling an event, the feedback
\* window shows recording whenever the state is Recording and transcribing
\* whenever the state is Transcribing
C27_FeedbackMatchesState ==
    phase = "loop" =>
        /\ state = "recording" => ui = "recording"
        /\ state = "transcribing" => ui = "transcribing"

\* the threads that are inside ASREngine._load_model
LoadsRunning ==
    Cardinality({p \in Paths : workers[p].pc = "loading"})
        + (IF loader = "loading" THEN 1 ELSE 0)

\* C28: the warm-up thread and the transcription workers never run two model
\* loads at the same time
C28_NoConcurrentLoads ==
    LoadsRunning <= 1

\* C30: the recorder's recording flag is true exactly when a capture stream
\* has been started and not yet stopped
C30_FlagMatchesStream ==
    recorder.recording <=> recorder.stream = "active"


\* C29: start_listener raises 'listener already running' exactly when a
\* listener is registered; otherwise it joins the listener it created, never a
\* cleared reference and never another listener while its own is stopped
C29_StartStopInterleave ==
    \A t \in 1..MaxStarters :
        /\ hkStarters[t].pc = "AlreadyRunning" <=> hkStarters[t].saw # 0
        /\ hkStarters[t].pc # "AttributeError"
        /\ hkStarters[t].pc = "joined" => hkStarters[t].target = hkStarters[t].created


\* C21: when the file exists and loading or running the model raises, transcribe
\* raises RuntimeError whose cause is that exception, and returns no text
C21_ModelErrorWrapped ==
    (engLast.op = "transcribe" /\ engLast.exists /\ engLast.modelExc # "none") =>
        /\ engLast.outcome = "raised"
        /\ engLast.exc = "RuntimeError"
        /\ engLast.cause = engLast.modelExc
        /\ engLast.text = NoText

\* the model, invoked on an existing file, raised FileNotFoundError itself
C21_Witness ==
    /\ engLast.op = "transcribe"
    /\ engLast.exists
    /\ engLast.invoked = <<engLast.path>>
    /\ engLast.modelExc = "FileNotFoundError"
    /\ engLast.exc = "RuntimeError"

\* C22: when the file exists and the model call succeeds, transcribe (of the
\* engine or of the module) has invoked the model once, with its path, and
\* returns the first result's text, or the empty string for no results
C22_FirstResultText ==
    (engLast.op = "transcribe" /\ engLast.exists /\ engLast.modelExc = "none") =>
        /\ engLast.outcome = "returned"
        /\ engLast.invoked = <<engLast.path>>
        /\ engLast.text = IF engLast.results.items = <<>> THEN <<>>
                          ELSE engLast.results.items[1]

\* the module-level transcribe returned the first of two results
C22_Witness ==
    /\ engLast.op = "transcribe"
    /\ engLast.level = "module"
    /\ engLast.path = 2
    /\ engLast.outcome = "returned"
    /\ Len(engLast.results.items) = 2
    /\ engLast.text = <<"a">>

\* C23: a model access or transcribe call that begins after a load has
\* succeeded never enters _load_model
C23_LoadedModelReused ==
    \A t \in EngineThreads :
        engThreads[t].pc \in {"load", "loading"} => ~engThreads[t].sawLoaded

\* a transcribe call made after the only load returned its text
C23_Witness ==
    /\ engLast.op = "transcribe"
    /\ engLast.sawLoaded
    /\ engLast.outcome = "returned"
    /\ engLoads = 1

\* C24: a model access or transcribe call that begins after a load has failed
\* does not start another load
C24_NoRetryAfterFailure ==
    \A t \in EngineThreads :
        engThreads[t].pc \in {"load", "loading"} => ~engThreads[t].sawFailed

\* C25: every ASREngine() returns the one instance, and a construction leaves
\* the instance's model as it was
C25_Singleton ==
    /\ Cardinality(engRefs) = 1
    /\ engLast.op = "new" =>
          /\ engLast.ref \in engRefs
          /\ engLast.ref = engInstance
          /\ engLast.modelAfter = engLast.modelBefore

\* a construction after the model was loaded
C25_Witness ==
    /\ engLast.op = "new"
    /\ engLast.modelBefore = LoadedModel
    /\ engModel = LoadedModel

\* C26: the device is MPS if available, else CUDA if available, else CPU, and
\* the precision is float16 on MPS, bfloat16 on CUDA and float32 on CPU
C26_DeviceAndPrecision ==
    /\ devLast.step \in {"device", "loaded"} =>
          devLast.device = IF devLast.mps THEN MPS
                           ELSE IF devLast.cuda THEN CUDA0
                           ELSE CPU
    /\ devLast.step = "loaded" =>
          /\ devLast.device = MPS => devLast.dtype = "float16"
          /\ devLast.device = CUDA0 => devLast.dtype = "bfloat16"
          /\ devLast.device = CPU => devLast.dtype = "float32"
    /\ devLast.step = "dtype" =>
          /\ devLast.arg = MPS => devLast.dtype = "float16"
          /\ devLast.arg = CUDA0 => devLast.dtype = "bfloat16"
          /\ devLast.arg = CPU => devLast.dtype = "float32"

\* both accelerators are available: MPS and float16 were selected
C26_Witness ==
    /\ devLast.step = "loaded"
    /\ devLast.mps
    /\ devLast.cuda
    /\ devLast.device = MPS
    /\ devLast.dtype = "float16"

============================================================================
